---- MODULE Spec2Model ----
(***************************************************************************)
(* gping: the windowed time-series store (App), its axis and statistics    *)
(* computations, and the producer / render-loop / shutdown pipeline of     *)
(* main, modelled from src/src/main.rs.                                    *)
(*                                                                         *)
(* Numbers.  The sequence counters, window limits and sample values are    *)
(* integers that the program stores in f64 (exact below 2^53), so they are *)
(* kept as integers.  The results of the f64 folds and of the 10% margin   *)
(* arithmetic are F64 values: <<"fin", n>> stands for the real n / 10      *)
(* (one decimal digit of fixed point, exact for a tenth of an integer),    *)
(* <<"inf", 0>> for +infinity and <<"nan", 0>> for NaN.                    *)
(* Durations are integers counting nanoseconds.                            *)
(*                                                                         *)
(* Outside the model.  ringbuffer::FixedRingBuffer is not among the        *)
(* sources; it is the FIFO store of fixed capacity that section 4.1 of the *)
(* specification describes, for a capacity of at least 1.  A Histogram is  *)
(* the exact multiset of the values it was incremented with.  Measured     *)
(* durations are at least one microsecond.  Terminal calls (draw, raw      *)
(* mode, screen switching) succeed.  When main returns the process ends    *)
(* and takes its threads with it.                                          *)
(***************************************************************************)
EXTENDS Integers, Sequences, FiniteSets, Bags, TLC

\* Bounds of the model.
MaxHosts == 2      \* hosts on the command line: 0..MaxHosts
MaxCap == 3        \* --buffer: 1..MaxCap
MaxUpdates == 4    \* samples produced in one run, over all sources
PipeCap == 1       \* --buffer in the runs of the whole pipeline
MaxSent == 2       \* samples produced in one run of the pipeline
MaxChan == 2       \* events queued in the channel or being acquired

VARIABLES
    watch,        \* args.watch is Some(..)
    nhosts,       \* args.hosts.len()
    capacity,     \* App.capacity
    data,         \* App.data: per source, the ring buffer's content, oldest first
    idx,          \* App.idx
    window_min,   \* App.window_min
    window_max,   \* App.window_max
    calls,        \* history: per source, the items passed to App.update so far
    killed,       \* the AtomicBool shared by the threads
    chan,         \* the mpsc channel: events sent and not yet received
    tpc,          \* per spawned thread, where it is
    mainpc,       \* where main is
    joined,       \* number of threads main has joined
    sent,         \* history: per source, the samples its producer has sent so far
    late          \* history: per thread, the events it sent after the flag was set

appvars == <<capacity, data, idx, window_min, window_max, calls>>
cfgvars == <<watch, nhosts>>
pipevars == <<killed, chan, tpc, mainpc, joined, sent, late>>
vars == <<watch, nhosts, capacity, data, idx, window_min, window_max, calls,
          killed, chan, tpc, mainpc, joined, sent, late>>

----------------------------------------------------------------------------
\* Option<Duration> and Duration

None == <<"None", 0>>
Some(dur) == <<"Some", dur>>

\* The measured durations of the model: 1ms, 2ms, 3ms, 4ms, in nanoseconds.
Durations == {ms * 1000000 : ms \in 1..4}
Items == {None} \cup {Some(d) : d \in Durations}

as_micros(dur) == dur \div 1000
from_micros(us) == us * 1000

----------------------------------------------------------------------------
\* f64

Fin(n) == <<"fin", n>>
INFINITY == <<"inf", 0>>
NAN == <<"nan", 0>>
\* an integer as f64
F(k) == Fin(k * 10)

\* f64::min and f64::max: a NaN operand is ignored
fmin(a, b) ==
    IF a = NAN THEN b
    ELSE IF b = NAN THEN a
    ELSE IF a = INFINITY THEN b
    ELSE IF b = INFINITY THEN a
    ELSE IF a[2] <= b[2] THEN a ELSE b

fmax(a, b) ==
    IF a = NAN THEN b
    ELSE IF b = NAN THEN a
    ELSE IF a = INFINITY \/ b = INFINITY THEN INFINITY
    ELSE IF a[2] >= b[2] THEN a ELSE b

\* a - b and a + b, for operands that are finite, +infinity or NaN;
\* a finite number minus +infinity does not arise in the program
fsub(a, b) ==
    IF a = NAN \/ b = NAN THEN NAN
    ELSE IF a = INFINITY /\ b = INFINITY THEN NAN
    ELSE IF a = INFINITY THEN INFINITY
    ELSE Fin(a[2] - b[2])

fadd(a, b) ==
    IF a = NAN \/ b = NAN THEN NAN
    ELSE IF a = INFINITY \/ b = INFINITY THEN INFINITY
    ELSE Fin(a[2] + b[2])

\* (v * 10_f64) / 100_f64
ten_percent(v) ==
    IF v = NAN THEN NAN
    ELSE IF v = INFINITY THEN INFINITY
    ELSE Fin((v[2] * 10) \div 100)

\* v / k for v >= 0 and an integer k > 0, cut to a tenth (`as u64`, the only
\* use made of the quotient, cuts the whole fraction off)
fdiv(v, k) ==
    IF v = NAN THEN NAN
    ELSE IF v = INFINITY THEN INFINITY
    ELSE Fin(v[2] \div k)

\* `v as u64` for a NaN or finite v: NaN gives 0, negatives saturate to 0,
\* the fraction is cut off
as_u64(v) ==
    IF v = NAN THEN 0
    ELSE IF v[2] < 0 THEN 0
    ELSE v[2] \div 10

----------------------------------------------------------------------------
\* The sources

Max2(a, b) == IF a >= b THEN a ELSE b
Min2(a, b) == IF a <= b THEN a ELSE b

num_threads == Max2(1, nhosts)
Sources == 0..(num_threads - 1)
\* the source ids a producer thread sends samples for
ProducerSources == IF watch THEN {0} ELSE 0..(nhosts - 1)

\* a per-source Vec as the sequence its iterator yields
VecSeq(v) == [i \in 1..num_threads |-> v[i - 1]]

----------------------------------------------------------------------------
\* ringbuffer::FixedRingBuffer

RingNew == << >>
len(buf) == Len(buf)
\* push: at capacity the oldest element is dropped, the new one becomes newest
push(buf, item) ==
    IF Len(buf) >= capacity THEN Append(Tail(buf), item) ELSE Append(buf, item)
\* as_slice / iter: the elements, oldest first
as_slice(buf) == buf

----------------------------------------------------------------------------
\* App

AppNew ==
    /\ data = [h \in Sources |-> RingNew]
    /\ idx = [h \in Sources |-> 0]
    /\ window_min = [h \in Sources |-> 0]
    /\ window_max = [h \in Sources |-> capacity]
    /\ calls = [h \in Sources |-> << >>]

\* the counter after one more update
next_idx_frozen_on_timeout(i, item) == IF item = None THEN i ELSE i + 1
next_idx(i, item) == i + 1

\* a window limit after one more update, the buffer holding n samples before it
slide_min_fixed(w, n) == w
slide_max_when_over(w, n) == IF n > capacity THEN w + 1 ELSE w
slide_max(w, n) == IF n >= capacity THEN w + 1 ELSE w
slide_min(w, n) == IF n >= capacity THEN w + 1 ELSE w

\* the data point pushed for item, i being the counter after the increment
point_skewed(i, item) ==
    IF item[1] = "Some" THEN <<i - 1, as_micros(item[2])>> ELSE <<i - 1, 0>>
point(i, item) ==
    IF item[1] = "Some" THEN <<i, as_micros(item[2])>> ELSE <<i, 0>>

\* the buffer after the update
store_dropping_timeouts(buf, i, item) ==
    IF item = None THEN buf ELSE push(buf, point(i, item))
store(buf, i, item) == push(buf, point(i, item))

\* an update that slides the windows of all the sources
update_sliding_all(host_id, item) ==
    LET n == len(data[host_id])
        i == next_idx(idx[host_id], item)
    IN  /\ UNCHANGED capacity
        /\ idx' = [idx EXCEPT ![host_id] = i]
        /\ window_min' = [h \in Sources |-> slide_min(window_min[h], n)]
        /\ window_max' = [h \in Sources |-> slide_max(window_max[h], n)]
        /\ data' = [data EXCEPT ![host_id] = store(@, i, item)]
        /\ calls' = [calls EXCEPT ![host_id] = Append(@, item)]
update(host_id, item) ==
    LET n == len(data[host_id])
        i == next_idx(idx[host_id], item)
    IN  /\ UNCHANGED capacity
        /\ idx' = [idx EXCEPT ![host_id] = i]
        /\ window_min' = [window_min EXCEPT ![host_id] = slide_min(@, n)]
        /\ window_max' = [window_max EXCEPT ![host_id] = slide_max(@, n)]
        /\ data' = [data EXCEPT ![host_id] = store(@, i, item)]
        /\ calls' = [calls EXCEPT ![host_id] = Append(@, item)]

----------------------------------------------------------------------------
\* stats: a Histogram is the bag of the values it was incremented with

HistNew == EmptyBag
increment(hist, v) == hist (+) SetToBag({v})

Ok(v) == <<"Ok", v>>
Err == <<"Err", 0>>
unwrap_or(r, d) == IF r[1] = "Ok" THEN r[2] ELSE d

minimum(hist) ==
    IF BagToSet(hist) = {} THEN Err
    ELSE Ok(CHOOSE v \in BagToSet(hist) : \A w \in BagToSet(hist) : v <= w)
maximum(hist) ==
    IF BagToSet(hist) = {} THEN Err
    ELSE Ok(CHOOSE v \in BagToSet(hist) : \A w \in BagToSet(hist) : v >= w)

RECURSIVE hist_of_all(_, _)
hist_of_all(hist, s) ==
    IF s = << >> THEN hist
    ELSE hist_of_all(increment(hist, Head(s)[2]), Tail(s))

RECURSIVE hist_of(_, _)
hist_of(hist, s) ==
    IF s = << >> THEN hist
    ELSE IF Head(s)[2] # 0
         THEN hist_of(increment(hist, Head(s)[2]), Tail(s))
         ELSE hist_of(hist, Tail(s))

stats_of_all(buf) == hist_of_all(HistNew, as_slice(buf))
stats_of(buf) == hist_of(HistNew, as_slice(buf))
stats == [h \in Sources |-> stats_of(data[h])]

----------------------------------------------------------------------------
\* the axes

RECURSIVE fold_min(_, _)
fold_min(acc, s) ==
    IF s = << >> THEN acc ELSE fold_min(fmin(acc, Head(s)), Tail(s))

RECURSIVE fold_max(_, _)
fold_max(acc, s) ==
    IF s = << >> THEN acc ELSE fold_max(fmax(acc, Head(s)), Tail(s))

\* a sequence of integers as f64 values
AsF64(s) == [i \in 1..Len(s) |-> F(s[i])]

x_axis_bounds_first_source ==
    <<F(window_min[0]), F(window_max[0])>>
x_axis_bounds ==
    <<fold_min(INFINITY, AsF64(VecSeq(window_min))),
      fold_max(F(0), AsF64(VecSeq(window_max)))>>

\* self.data.iter().map(|b| b.as_slice()).flatten().map(|v| v.1)
RECURSIVE flatten(_)
flatten(ss) == IF ss = << >> THEN << >> ELSE Head(ss) \o flatten(Tail(ss))
values == LET all == flatten(VecSeq([h \in Sources |-> as_slice(data[h])]))
          IN  [i \in 1..Len(all) |-> all[i][2]]

\* the bounds from the folded minimum and maximum
margins_of_max(min, max) ==
    <<fsub(min, ten_percent(max)), fadd(max, ten_percent(max))>>
margins(min, max) ==
    LET max_10_percent == ten_percent(max)
        min_10_percent == ten_percent(min)
    IN  <<fsub(min, min_10_percent), fadd(max, max_10_percent)>>

y_axis_bounds ==
    LET min == fold_min(INFINITY, AsF64(values))
        max == fold_max(F(0), AsF64(values))
    IN  margins(min, max)

\* the 7 tick durations, in nanoseconds
y_axis_labels(bounds) ==
    LET min == bounds[1]
        max == bounds[2]
        difference == fsub(max, min)
        increment_ == from_micros(as_u64(fdiv(difference, 3)))
        duration == from_micros(as_u64(min))
    IN  [k \in 1..7 |-> duration + increment_ * (k - 1)]

----------------------------------------------------------------------------
\* main: the Event::Update arm of the render loop

\* What terminal.draw shows.  The arm draws right after app.update and draw
\* changes nothing of the App, so the frame on the screen is this function of
\* the state after the update.
shown_min(h) == unwrap_or(minimum(stats[h]), 0)
shown_max(h) == unwrap_or(maximum(stats[h]), 0)
frame ==
    [min |-> [h \in Sources |-> shown_min(h)],
     max |-> [h \in Sources |-> shown_max(h)],
     x |-> x_axis_bounds,
     y |-> y_axis_bounds,
     labels |-> y_axis_labels(y_axis_bounds)]

RenderUpdate(host_id, item) == update(host_id, item)

----------------------------------------------------------------------------
Updates == LET RECURSIVE total(_)
               total(S) == IF S = {} THEN 0
                           ELSE LET h == CHOOSE x \in S : TRUE
                                IN  Len(calls[h]) + total(S \ {h})
           IN  total(Sources)

\* The threads main spawns, in the order of `threads`: the producers (the
\* command thread, or one ping thread per host), then the keyboard thread.
nproducers == IF watch THEN 1 ELSE nhosts
Threads == 1..(nproducers + 1)
key_thread == nproducers + 1
Producers == 1..nproducers
\* the host_id a producer thread tags its samples with
host_id_from_one(t) == IF watch THEN 0 ELSE t
host_id_of(t) == IF watch THEN 0 ELSE t - 1

\* the command line: hosts and --watch exclude each other
Config ==
    /\ watch \in BOOLEAN
    /\ nhosts \in 0..MaxHosts
    /\ watch => nhosts = 0

\* main up to the render loop: the App built, the flag false, the channel
\* empty, every thread spawned and not yet run
Started ==
    /\ AppNew
    /\ killed = FALSE
    /\ chan = << >>
    /\ tpc = [t \in Threads |-> IF t \in Producers /\ ~watch THEN "start" ELSE "check"]
    /\ mainpc = "recv"
    /\ joined = 0
    /\ sent = [h \in Sources |-> << >>]
    /\ late = [t \in Threads |-> 0]

InitApp == Config /\ capacity \in 1..MaxCap /\ Started
Init == Config /\ capacity = PipeCap /\ Started

\* The store alone: every sequence of samples the producers can deliver,
\* each applied and drawn as the render loop does.
Sample ==
    /\ Updates < MaxUpdates
    /\ UNCHANGED <<cfgvars, pipevars>>
    /\ \E host_id \in ProducerSources, item \in Items : RenderUpdate(host_id, item)

NextApp == Sample
SpecApp == InitApp /\ [][NextApp]_vars

----------------------------------------------------------------------------
\* Events

\* enum Update, and From<PingResult> for Update
Result(dur) == <<"Result", dur>>
Timeout == <<"Timeout", 0>>
Pong(dur) == <<"Pong", dur>>
PingTimeout == <<"PingTimeout", 0>>
from_ping(result) == IF result[1] = "Pong" THEN Result(result[2]) ELSE Timeout

\* enum Event
EvUpdate(host_id, u) == <<"Update", host_id, u>>
EvInput(key) == <<"Input", key>>

\* what the probes and the commands of the model yield
PingResults == {PingTimeout, Pong(1000000)}
CmdDurations == {2000000}
\* the keys of the model: q, Esc, Ctrl-c, and c without a modifier
Keys == {"q", "Esc", "Ctrl-c", "c"}
QuitKeys == {"q", "Esc", "Ctrl-c"}

----------------------------------------------------------------------------
\* The process runs until main returns; its threads end with it.
Running == mainpc \in {"recv", "join"}
Finished(t) == tpc[t] \in {"ok", "err"}

\* Bounds on what is in the pipeline: events queued or being acquired.
Acquiring == {t \in Threads : tpc[t] \in {"recv", "run", "poll"}}
Queued == {n \in 1..Len(chan) : chan[n][1] = "Update"}
SampleBudget ==
    Updates + Cardinality(Queued) + Cardinality(Acquiring \ {key_thread}) < MaxSent
ChanBudget == Len(chan) + Cardinality(Acquiring) < MaxChan

goto(t, pc) == tpc' = [tpc EXCEPT ![t] = pc]
\* Sender::send by thread t: the channel is unbounded and first-in first-out
enqueue_in_front(queue, ev) == <<ev>> \o queue
enqueue(queue, ev) == Append(queue, ev)
send(t, ev) ==
    /\ chan' = enqueue(chan, ev)
    /\ sent' = IF ev[1] = "Update"
               THEN [sent EXCEPT ![ev[2]] = Append(@, ev[3])]
               ELSE sent
    /\ late' = IF killed THEN [late EXCEPT ![t] = @ + 1] ELSE late

\* ping_thread: `let stream = ping(host)?`
PingStart(t) ==
    /\ Running /\ ~watch /\ t \in Producers /\ tpc[t] = "start"
    /\ \E ok \in BOOLEAN : goto(t, IF ok THEN "check" ELSE "err")
    /\ UNCHANGED <<cfgvars, appvars, killed, chan, mainpc, joined, sent, late>>

\* `killed.load(Ordering::Acquire)`: the value of the shared flag
load_stale(flag) == FALSE
load(flag) == flag

\* the `while !killed.load(Acquire)` of the three closures
LoopCheck(t) ==
    /\ Running /\ tpc[t] = "check"
    /\ IF load(killed)
       THEN goto(t, "ok")
       ELSE /\ ChanBudget
            /\ t # key_thread => SampleBudget
            /\ goto(t, IF t = key_thread THEN "poll" ELSE IF watch THEN "run" ELSE "recv")
    /\ UNCHANGED <<cfgvars, appvars, killed, chan, mainpc, joined, sent, late>>

\* ping_thread: `ping_tx.send(Event::Update(host_id, stream.recv()?.into()))?`
PingRecvSend(t) ==
    /\ Running /\ tpc[t] = "recv"
    /\ \E r \in PingResults :
           /\ send(t, EvUpdate(host_id_of(t), from_ping(r)))
           /\ goto(t, "check")
    /\ UNCHANGED <<cfgvars, appvars, killed, mainpc, joined>>

\* ping_thread: `stream.recv()?` fails and the closure returns the error
PingRecvFails_stopping_all(t) ==
    /\ Running /\ tpc[t] = "recv"
    /\ goto(t, "err")
    /\ killed' = TRUE
    /\ UNCHANGED <<cfgvars, appvars, chan, mainpc, joined, sent, late>>
PingRecvFails(t) ==
    /\ Running /\ tpc[t] = "recv"
    /\ goto(t, "err")
    /\ UNCHANGED <<cfgvars, appvars, killed, chan, mainpc, joined, sent, late>>

\* cmd_thread: run the command, send the outcome
CmdRunSend(t) ==
    /\ Running /\ tpc[t] = "run"
    /\ \E success \in BOOLEAN, duration \in CmdDurations :
           /\ send(t, EvUpdate(0, IF success THEN Result(duration) ELSE Timeout))
           /\ goto(t, "sleep")
    /\ UNCHANGED <<cfgvars, appvars, killed, mainpc, joined>>

CmdRunFails(t) ==
    /\ Running /\ tpc[t] = "run"
    /\ goto(t, "err")
    /\ UNCHANGED <<cfgvars, appvars, killed, chan, mainpc, joined, sent, late>>

\* cmd_thread: `thread::sleep(interval)`
CmdSleep(t) ==
    /\ Running /\ tpc[t] = "sleep"
    /\ goto(t, "check")
    /\ UNCHANGED <<cfgvars, appvars, killed, chan, mainpc, joined, sent, late>>

\* key_thread: poll finds a key event and sends it
KeySend ==
    /\ Running /\ tpc[key_thread] = "poll"
    /\ \E key \in Keys : send(key_thread, EvInput(key))
    /\ goto(key_thread, "check")
    /\ UNCHANGED <<cfgvars, appvars, killed, mainpc, joined>>

\* key_thread: poll times out, or the event read is not a key
KeyNone ==
    /\ Running /\ tpc[key_thread] = "poll"
    /\ goto(key_thread, "check")
    /\ UNCHANGED <<cfgvars, appvars, killed, chan, mainpc, joined, sent, late>>

\* key_thread: `event::poll(..)?` or `event::read()?` fails
KeyFails ==
    /\ Running /\ tpc[key_thread] = "poll"
    /\ goto(key_thread, "err")
    /\ UNCHANGED <<cfgvars, appvars, killed, chan, mainpc, joined, sent, late>>

\* main is inside `loop { match rx.recv()? { .. } }` until a quit key breaks it
in_loop_or_joining == mainpc \in {"recv", "join"}
in_loop == mainpc = "recv"

\* the match arms of Event::Input that store the flag and break
any_key_quits(key) == TRUE
is_quit(key) == key \in {"q", "Esc"} \/ key = "Ctrl-c"

\* main: `rx.recv()?` yields Event::Update, which is applied and drawn
RecvUpdate ==
    /\ in_loop /\ chan # << >> /\ Head(chan)[1] = "Update"
    /\ chan' = Tail(chan)
    /\ UNCHANGED <<cfgvars, killed, tpc, mainpc, joined, sent, late>>
    /\ LET host_id == Head(chan)[2]
           u == Head(chan)[3]
       IN  IF u[1] = "Result"
           THEN RenderUpdate(host_id, Some(u[2]))
           ELSE RenderUpdate(host_id, None)

\* main: `rx.recv()?` yields Event::Input
RecvInput ==
    /\ in_loop /\ chan # << >> /\ Head(chan)[1] = "Input"
    /\ chan' = Tail(chan)
    /\ IF is_quit(Head(chan)[2])
       THEN killed' = TRUE /\ mainpc' = "join"
       ELSE UNCHANGED <<killed, mainpc>>
    /\ UNCHANGED <<cfgvars, appvars, tpc, joined, sent, late>>

\* main: `rx.recv()?` fails: the channel is empty and every sender is dropped
RecvFails ==
    /\ in_loop /\ chan = << >> /\ \A t \in Threads : Finished(t)
    /\ mainpc' = "recv_err"
    /\ UNCHANGED <<cfgvars, appvars, killed, chan, tpc, joined, sent, late>>

\* main: `thread.join().unwrap()?` on the next thread of `threads`
Join ==
    /\ mainpc = "join" /\ joined < Cardinality(Threads)
    /\ Finished(joined + 1)
    /\ IF tpc[joined + 1] = "ok"
       THEN joined' = joined + 1 /\ UNCHANGED mainpc
       ELSE mainpc' = "err" /\ UNCHANGED joined
    /\ UNCHANGED <<cfgvars, appvars, killed, chan, tpc, sent, late>>

\* main: every thread joined, the terminal is restored, Ok(())
Teardown ==
    /\ mainpc = "join" /\ joined = Cardinality(Threads)
    /\ mainpc' = "done"
    /\ UNCHANGED <<cfgvars, appvars, killed, chan, tpc, joined, sent, late>>

ThreadStep(t) ==
    \/ PingStart(t) \/ LoopCheck(t) \/ PingRecvSend(t) \/ PingRecvFails(t)
    \/ CmdRunSend(t) \/ CmdRunFails(t) \/ CmdSleep(t)
    \/ (t = key_thread /\ (KeySend \/ KeyNone \/ KeyFails))
MainStep == RecvUpdate \/ RecvInput \/ RecvFails \/ Join \/ Teardown

Next ==
    \/ \E t \in Threads : PingStart(t)
    \/ \E t \in Threads : LoopCheck(t)
    \/ \E t \in Threads : PingRecvSend(t)
    \/ \E t \in Threads : PingRecvFails(t)
    \/ \E t \in Threads : CmdRunSend(t)
    \/ \E t \in Threads : CmdRunFails(t)
    \/ \E t \in Threads : CmdSleep(t)
    \/ KeySend
    \/ KeyNone
    \/ KeyFails
    \/ RecvUpdate
    \/ RecvInput
    \/ RecvFails
    \/ Join
    \/ Teardown

Spec == Init /\ [][Next]_vars

\* The threads are scheduled and the calls they wait in return.
Fairness ==
    /\ \A t \in 1..(MaxHosts + 1) : WF_vars(t \in Threads /\ ThreadStep(t))
    /\ WF_vars(MainStep)
FairSpec == Spec /\ Fairness

----------------------------------------------------------------------------
\* Helpers of the properties

SetMin(S) == CHOOSE v \in S : \A w \in S : v <= w
SetMax(S) == CHOOSE v \in S : \A w \in S : v >= w

\* the value App.update records for an item, in microseconds
Recorded(item) == IF item = None THEN 0 ELSE item[2] \div 1000

\* the samples of the last min(N, C) of the N update calls on source h,
\* oldest first, the n-th call giving the sample (n, value)
LastPushed(h) ==
    LET N == Len(calls[h])
        k == Min2(N, capacity)
    IN  [j \in 1..k |-> <<N - k + j, Recorded(calls[h][N - k + j])>>]

ms(n) == Some(n * 1000000)

----------------------------------------------------------------------------
\* C1: after N calls of App.update on a source, its ring buffer has length
\* min(N, C), never more than C, and holds exactly the samples of the last
\* min(N, C) calls, oldest first, in the order they were pushed.
C1_RingHoldsLastSamples ==
    \A h \in Sources :
        /\ len(data[h]) = Min2(Len(calls[h]), capacity)
        /\ len(data[h]) <= capacity
        /\ as_slice(data[h]) = LastPushed(h)

\* a buffer of capacity 2 or more that has evicted a sample, a timeout among
\* the calls
C1_Witness ==
    \E h \in Sources :
        /\ capacity >= 2
        /\ Len(calls[h]) > capacity
        /\ \E n \in 1..Len(calls[h]) : calls[h][n] = None
        /\ as_slice(data[h]) = LastPushed(h)

\* C2: the sequence counter of a source equals the number of update calls on
\* it, whatever mix of durations and timeouts they carried.
C2_SequenceCountsUpdates ==
    \A h \in Sources : idx[h] = Len(calls[h])

\* three or more updates on one source, timeouts and durations among them
C2_Witness ==
    \E h \in Sources :
        /\ Len(calls[h]) >= 3
        /\ \E n \in 1..Len(calls[h]) : calls[h][n] = None
        /\ \E n \in 1..Len(calls[h]) : calls[h][n] # None
        /\ idx[h] = Len(calls[h])

\* C3 as stated: window_max - window_min equals min(updates so far, C) after
\* any sequence of updates, zero updates included.
C3_WidthIsMinUpdatesCapacity ==
    \A h \in Sources :
        window_max[h] - window_min[h] = Min2(Len(calls[h]), capacity)

\* C3 amended: window_max - window_min equals C after any sequence of
\* updates, zero updates included; so it equals min(updates so far, C) from
\* the C-th update on.
C3_WidthIsCapacity ==
    \A h \in Sources :
        /\ window_max[h] - window_min[h] = capacity
        /\ Len(calls[h]) >= capacity =>
               window_max[h] - window_min[h] = Min2(Len(calls[h]), capacity)

\* one source updated but not yet full, another (or the same run later) slid
C3_Witness ==
    /\ \E h \in Sources :
           /\ 0 < Len(calls[h])
           /\ Len(calls[h]) < capacity
           /\ window_max[h] - window_min[h] = capacity
    /\ \E h \in Sources :
           /\ Len(calls[h]) > capacity
           /\ window_min[h] > 0
           /\ window_max[h] - window_min[h] = capacity

\* C4: capacity 3, a single source, the durations 1ms, 2ms, 3ms, 4ms in
\* that order: the buffer ends as [(2, 2000), (3, 3000), (4, 4000)] in
\* microseconds, window_min is 1 and window_max is 4.
C4_Scenario ==
    (/\ capacity = 3
     /\ num_threads = 1
     /\ calls[0] = <<ms(1), ms(2), ms(3), ms(4)>>)
    => /\ as_slice(data[0]) = <<<<2, 2000>>, <<3, 3000>>, <<4, 4000>>>>
       /\ window_min[0] = 1
       /\ window_max[0] = 4

C4_Witness ==
    /\ capacity = 3
    /\ num_threads = 1
    /\ calls[0] = <<ms(1), ms(2), ms(3), ms(4)>>
    /\ as_slice(data[0]) = <<<<2, 2000>>, <<3, 3000>>, <<4, 4000>>>>
    /\ window_min[0] = 1
    /\ window_max[0] = 4

\* C5: x_axis_bounds() is [the least window_min of the sources, the greatest
\* window_max of the sources].
C5_XBoundsAreUnionEnvelope ==
    x_axis_bounds = <<F(SetMin({window_min[h] : h \in Sources})),
                      F(SetMax({window_max[h] : h \in Sources}))>>

\* two sources with different numbers of updates and different windows, the
\* first source not the one with the greatest window_max
C5_Witness ==
    /\ \E g, h \in Sources :
           /\ Len(calls[g]) # Len(calls[h])
           /\ window_min[g] # window_min[h]
    /\ window_max[0] < SetMax({window_max[h] : h \in Sources})
    /\ x_axis_bounds = <<F(SetMin({window_min[h] : h \in Sources})),
                         F(SetMax({window_max[h] : h \in Sources}))>>

----------------------------------------------------------------------------
\* the values recorded by the calls whose samples source h still holds
HeldCalls(h) ==
    SubSeq(calls[h], Len(calls[h]) - Min2(Len(calls[h]), capacity) + 1, Len(calls[h]))
\* the measured (non-timeout) values source h holds, and those of all sources
HeldMeasured(h) ==
    LET held == HeldCalls(h)
    IN  {Recorded(held[n]) : n \in {m \in 1..Len(held) : held[m] # None}}
AllMeasured == UNION {HeldMeasured(h) : h \in Sources}
TimeoutHeld ==
    \E h \in Sources : LET held == HeldCalls(h)
                        IN  \E n \in 1..Len(held) : held[n] = None
\* the render loop has drawn a frame
Drawn == Updates > 0

\* C6, on the frames the render loop draws: the y bounds come from the
\* least and the greatest non-timeout value held, so a held timeout does not
\* lower the minimum; with no non-timeout value held they are [0, 1].
C6_YBoundsIgnoreTimeouts ==
    Drawn =>
        IF AllMeasured = {}
        THEN frame.y = <<F(0), F(1)>>
        ELSE frame.y = margins(F(SetMin(AllMeasured)), F(SetMax(AllMeasured)))

\* C7 as stated, on the frames drawn while no timeout is held: the bounds
\* are [min_raw - max_raw / 10, max_raw + max_raw / 10].
C7_MarginIsTenthOfMax ==
    (Drawn /\ AllMeasured # {} /\ ~TimeoutHeld) =>
        frame.y = <<Fin(SetMin(AllMeasured) * 10 - SetMax(AllMeasured)),
                    Fin(SetMax(AllMeasured) * 10 + SetMax(AllMeasured))>>

\* C7 amended: when a non-timeout sample is held the bounds are
\* [m - m / 10, max_raw + max_raw / 10], m the least value held, a held
\* timeout counting as 0: each bound moves outwards by a tenth of itself.
C7_MarginIsTenthOfEachBound ==
    LET measured == AllMeasured
    IN  measured # {} =>
            LET m == IF TimeoutHeld THEN 0 ELSE SetMin(measured)
                M == SetMax(measured)
            IN  y_axis_bounds = <<Fin(m * 10 - m), Fin(M * 10 + M)>>

\* two different measured values held and no timeout: the lower margin is
\* a tenth of the least value, which is not a tenth of the greatest
C7_Witness ==
    /\ AllMeasured # {}
    /\ ~TimeoutHeld
    /\ SetMin(AllMeasured) < SetMax(AllMeasured)
    /\ y_axis_bounds = <<Fin(SetMin(AllMeasured) * 9), Fin(SetMax(AllMeasured) * 11)>>

\* C8, on the frames drawn: the 7 ticks split [min, max] into 6 equal parts,
\* the first tick min, the last max, none above max.  A bound <<"fin", n>>
\* is n / 10 microseconds, that is n * 100 nanoseconds.
C8_TicksSplitBoundsInSix ==
    (Drawn /\ frame.y[1][1] = "fin" /\ frame.y[2][1] = "fin") =>
        LET lo == frame.y[1][2] * 100
            hi == frame.y[2][2] * 100
            t == frame.labels
        IN  /\ Len(t) = 7
            /\ t[1] = lo
            /\ t[7] = hi
            /\ \A k \in 1..6 : 6 * (t[k + 1] - t[k]) = hi - lo
            /\ \A k \in 1..7 : t[k] <= hi

\* C9: the histogram of a source counts exactly the non-zero values its
\* buffer holds, so timeouts never count, and the minimum and maximum shown
\* are those of the non-timeout values held (0 when there is none).
C9_StatsSkipTimeouts ==
    \A h \in Sources :
        LET held == HeldCalls(h)
            measured == HeldMeasured(h)
            hist == stats[h]
        IN  /\ BagToSet(hist) = measured
            /\ \A v \in measured :
                   CopiesIn(v, hist) =
                       Cardinality({n \in 1..Len(held) :
                                       held[n] # None /\ Recorded(held[n]) = v})
            /\ measured # {} =>
                   /\ minimum(hist) = Ok(SetMin(measured))
                   /\ maximum(hist) = Ok(SetMax(measured))
                   /\ shown_min(h) = SetMin(measured)
                   /\ shown_max(h) = SetMax(measured)

\* a source holding 1ms, 3ms and a timeout: minimum 1000, maximum 3000
C9_Witness ==
    \E h \in Sources :
        /\ TimeoutHeld
        /\ \E n \in 1..len(data[h]) : data[h][n][2] = 0
        /\ HeldMeasured(h) = {1000, 3000}
        /\ minimum(stats[h]) = Ok(1000)
        /\ maximum(stats[h]) = Ok(3000)

----------------------------------------------------------------------------
\* C10, its final result: once the flag is set and main has returned, every
\* producer thread has terminated, main has completed every join, and it
\* returned through the teardown, not through an error or a panic.
C10_ShutdownJoinsEveryThread ==
    (killed /\ ~Running) =>
        /\ \A t \in Threads : Finished(t)
        /\ joined = Cardinality(Threads)
        /\ mainpc = "done"

\* C10, its progress, under fair scheduling: once the flag is set every
\* thread terminates or the process ends, and main returns.
C10_ThreadsTerminate ==
    killed ~> ((\A t \in Threads : Finished(t)) \/ ~Running)
C10_MainReturns == killed ~> ~Running
----------------------------------------------------------------------------
\* C11: on every path, also when a producer has ended with an error, no
\* producer thread is still running when main returns: main waits for every
\* producer to finish before it terminates.
C11_NoProducerRunsWhenMainReturns ==
    ~Running => \A t \in Threads : Finished(t)

----------------------------------------------------------------------------
\* C12: the failure of a sample producer ends that thread and nothing else:
\* the flag, the channel, the aggregator, main and the other threads are as
\* they were; the render loop goes on taking the events that are queued; it
\* is left without a quit key only when the channel has hung up, which needs
\* the keyboard thread to have ended too; and a thread's error is returned by
\* main only from the join, after a quit key has ended the loop.
Fails(t) == tpc[t] # "err" /\ tpc'[t] = "err"
C12_Isolated ==
    \A t \in Producers :
        Fails(t) =>
            /\ killed' = killed /\ chan' = chan /\ mainpc' = mainpc
            /\ joined' = joined /\ appvars' = appvars
            /\ \A u \in Threads \ {t} : tpc'[u] = tpc[u]
C12_LoopGoesOn ==
    /\ ~killed => mainpc \in {"recv", "recv_err"}
    /\ mainpc = "recv_err" => \A t \in Threads : tpc[t] = "err"
    /\ (mainpc = "recv" /\ chan # << >>) => ENABLED (RecvUpdate \/ RecvInput)
    /\ mainpc = "err" =>
           killed /\ joined < Cardinality(Threads) /\ tpc[joined + 1] = "err"
C12_ProducerFailureIsIsolated == []C12_LoopGoesOn /\ [][C12_Isolated]_vars
\* a ping thread has failed, the loop has since applied a sample of another
\* source, and the error comes out of the join after the quit key
C12_Witness ==
    /\ mainpc = "err" /\ killed /\ nhosts = 2
    /\ tpc[1] = "err" /\ idx[0] = 0 /\ idx[1] > 0

----------------------------------------------------------------------------
\* C13: the flag starts false, it is set only by the render loop when it
\* takes a quit key from the channel, and once true it stays true.
C13_SetByQuitKey ==
    killed' # killed =>
        /\ killed' = TRUE
        /\ mainpc = "recv" /\ mainpc' = "join"
        /\ chan # << >> /\ Head(chan) \in {EvInput(key) : key \in QuitKeys}
        /\ tpc' = tpc
C13_FlagIsOneWay ==
    /\ killed = FALSE
    /\ [][C13_SetByQuitKey /\ (killed => killed')]_vars
\* the flag is set and threads have moved on under it
C13_Witness ==
    /\ killed /\ \E t \in Threads : tpc[t] = "ok"
    /\ \E t \in Threads : late[t] > 0

----------------------------------------------------------------------------
\* C14: for each sample producer the render loop takes its events in the
\* order they were sent, whatever the other threads do in between: what has
\* been applied to a source and what is still queued for it are, in this
\* order, what its producer has sent, and the sample stored with sequence
\* number k is the k-th one the producer sent.
ItemOf(u) == IF u[1] = "Result" THEN Some(u[2]) ELSE None
QueuedFor(h) == SelectSeq(chan, LAMBDA ev : ev[1] = "Update" /\ ev[2] = h)
C14_EventsOfAProducerKeepTheirOrder ==
    \A h \in Sources :
        LET q == QueuedFor(h)
            N == Len(calls[h])
        IN  /\ Len(sent[h]) = N + Len(q)
            /\ \A k \in 1..N : calls[h][k] = ItemOf(sent[h][k])
            /\ \A k \in 1..Len(q) : q[k][3] = sent[h][N + k]
            /\ \A n \in 1..Len(data[h]) :
                   LET k == data[h][n][1]
                   IN  /\ k \in 1..N
                       /\ data[h][n][2] = Recorded(ItemOf(sent[h][k]))
\* a source has sent two different samples while the keyboard thread sent a
\* key, and the loop has applied both samples
C14_Witness ==
    \E h \in Sources :
        /\ Len(sent[h]) = 2 /\ sent[h][1] # sent[h][2]
        /\ Len(calls[h]) = 2 /\ idx[h] = 2
        /\ \E n \in 1..Len(chan) : chan[n][1] = "Input"

----------------------------------------------------------------------------
\* C15: an update of one source changes the buffer, the counter and the
\* window of that source only, so each source is at any time what its own
\* samples alone, applied in their order from the start, make it, whatever
\* was applied to the other sources in between.
SourceNew == [data |-> RingNew, idx |-> 0, window_min |-> 0, window_max |-> capacity]
SourceUpdate(st, item) ==
    LET n == len(st.data)
        i == next_idx(st.idx, item)
    IN  [data |-> store(st.data, i, item), idx |-> i,
         window_min |-> slide_min(st.window_min, n),
         window_max |-> slide_max(st.window_max, n)]
RECURSIVE Replay(_)
Replay(items) ==
    IF items = << >> THEN SourceNew
    ELSE SourceUpdate(Replay(SubSeq(items, 1, Len(items) - 1)), items[Len(items)])
SourceState(h) ==
    [data |-> data[h], idx |-> idx[h],
     window_min |-> window_min[h], window_max |-> window_max[h]]
C15_OthersUntouched ==
    \A h \in Sources :
        calls'[h] = calls[h] =>
            /\ data'[h] = data[h] /\ idx'[h] = idx[h]
            /\ window_min'[h] = window_min[h] /\ window_max'[h] = window_max[h]
C15_UpdateTouchesOneSource ==
    /\ [](\A h \in Sources : SourceState(h) = Replay(calls[h]))
    /\ [][C15_OthersUntouched]_vars
\* two sources, one slid past its capacity, the other updated but not full
C15_Witness ==
    /\ nhosts = 2 /\ capacity = 2
    /\ Len(calls[0]) = 3 /\ Len(calls[1]) = 1
    /\ window_min[0] = 1 /\ window_min[1] = 0

----------------------------------------------------------------------------
\* C16: a timeout is stored as (sequence, 0) as a measured sample is stored
\* as (sequence, value), none is skipped: the x-coordinates a buffer holds
\* are consecutive integers and the newest is the source's counter.
C16_SequenceHasNoGap ==
    \A h \in Sources :
        LET L == Len(data[h])
        IN  /\ \A n \in 1..L : data[h][n][1] = idx[h] - L + n
            /\ L = Min2(Len(calls[h]), capacity)
            /\ (calls[h] # << >> /\ calls[h][Len(calls[h])] = None) =>
                   data[h][L] = <<idx[h], 0>>
            /\ (calls[h] # << >> /\ calls[h][Len(calls[h])] # None) =>
                   data[h][L] = <<idx[h], calls[h][Len(calls[h])][2] \div 1000>>
\* a timeout between two measured samples, all three held
C16_Witness ==
    \E h \in Sources :
        /\ Len(data[h]) = 3
        /\ data[h][1][2] # 0 /\ data[h][2] = <<2, 0>> /\ data[h][3][2] # 0

----------------------------------------------------------------------------
\* C17: every sample a source holds has its x-coordinate inside the window
\* of the source; once the buffer is full the window ends at the counter
\* and starts the capacity before it.
C17_SamplesInsideWindow ==
    \A h \in Sources :
        /\ \A n \in 1..Len(data[h]) :
               window_min[h] <= data[h][n][1] /\ data[h][n][1] <= window_max[h]
        /\ Len(data[h]) >= capacity =>
               window_max[h] = idx[h] /\ window_min[h] = idx[h] - capacity
\* a full buffer that has slid
C17_Witness ==
    \E h \in Sources :
        /\ Len(data[h]) = capacity /\ idx[h] > capacity /\ window_min[h] > 0

----------------------------------------------------------------------------
\* C18: every sample event in the channel, so every one the render loop takes,
\* carries a source id below the number of series made at startup, which is
\* max(1, number of hosts), in ping mode and in watch mode; the series are
\* that many at all times.
Series == 0..((IF nhosts > 1 THEN nhosts ELSE 1) - 1)
C18_SourceIdsInRange ==
    /\ \A n \in 1..Len(chan) : chan[n][1] = "Update" => chan[n][2] \in Series
    /\ DOMAIN data = Series /\ DOMAIN idx = Series
    /\ DOMAIN window_min = Series /\ DOMAIN window_max = Series
\* watch mode without hosts: the one series has taken a sample of source 0
C18_Witness == watch /\ nhosts = 0 /\ idx[0] > 0
\* ping mode: the last host's sample is queued
C18_WitnessPing ==
    /\ ~watch /\ nhosts = MaxHosts
    /\ \E n \in 1..Len(chan) : chan[n][1] = "Update" /\ chan[n][2] = nhosts - 1

----------------------------------------------------------------------------
\* C19: once the flag is set a thread sends at most one more event, the one
\* it was acquiring when the flag was set, and after it the thread does not
\* go round its loop again.
C19_AtMostOneLateEvent ==
    \A t \in Threads :
        /\ late[t] <= 1
        /\ late[t] = 1 => tpc[t] \in {"check", "sleep", "ok"}
        /\ late[t] = 1 => \E n \in 1..Len(chan) :
               chan[n][1] = (IF t = key_thread THEN "Input" ELSE "Update")
\* a sample producer has sent an event after the flag was set, has seen the
\* flag at its next check and has left its loop
C19_Witness ==
    \E t \in Producers : killed /\ late[t] = 1 /\ tpc[t] = "ok"

----------------------------------------------------------------------------
\* C20: once the render loop has taken a quit key it is out of the loop and
\* no step changes a buffer, a counter or a window any more, whatever is
\* queued or sent afterwards; taking any other key changes neither the
\* aggregator nor the flag and leaves the loop running.
TakesKey(keys) ==
    /\ mainpc = "recv" /\ chan # << >> /\ chan' = Tail(chan)
    /\ Head(chan) \in {EvInput(key) : key \in keys}
C20_Step ==
    /\ killed => appvars' = appvars
    /\ TakesKey(QuitKeys) => killed' /\ mainpc' = "join" /\ appvars' = appvars
    /\ TakesKey(Keys \ QuitKeys) =>
           appvars' = appvars /\ killed' = killed /\ mainpc' = "recv"
C20_NothingAppliedAfterQuit ==
    /\ [](killed => mainpc # "recv")
    /\ [][C20_Step]_vars
\* main has returned after a quit key and a sample sent after it is still
\* queued, never applied
C20_Witness ==
    /\ mainpc = "done"
    /\ \E t \in Producers :
           /\ late[t] = 1
           /\ QueuedFor(host_id_of(t)) # << >>
           /\ Len(calls[host_id_of(t)]) < Len(sent[host_id_of(t)])

====
